---- MODULE Spec2Model ----
(***************************************************************************)
(* bench_compare.py: resolve the commit a branch started from, benchmark   *)
(* the target file at that commit, at the branch tip and at the base tip,  *)
(* and report a regression when the tip is more than 10% slower.           *)
(*                                                                         *)
(* A string of the program is a sequence of "/"-separated segments:        *)
(* "origin/main" is <<"origin", "main">> and "" is <<>>.  A commit is a    *)
(* number (a higher number is a later commit date), its hash the string    *)
(* HashOf(c).  Durations are integers (half ticks), so that the median of  *)
(* an even number of runs is an integer too.                               *)
(***************************************************************************)
EXTENDS Integers, Sequences, FiniteSets, TLC

\* ------------------------------------------------------------- bounds
MaxCommits == 3
MaxRefs == 2
MaxRuns == 2
MaxTick == 11
MaxPick == 3

\* ------------------------------------------------- program constants
DefaultRuns == 5
TolNum == 11
TolDen == 10

VARIABLES
    parents,                \* commit -> sequence of its parents' numbers
    refs,                   \* ref name -> commit, 0 when the ref does not exist
    hasFile,                \* the commits whose tree holds the target file
    head,                   \* HEAD: [branch, commit]; branch = <<>> when detached
    prev,                   \* @{-1}, what `git checkout -` goes to; <<>> when none
    argv,                   \* sys.argv[1:]
    durs,                   \* the durations one run of the target can take
    pc,                     \* position in main()
    filepath, runs,         \* main's parsed arguments
    first_unique, branch_origin_parent, found_refs, chosen_base_ref,
    bi,                     \* which benchmark_commit call of main is running, 1..3
    restore_cmd,            \* benchmark_commit's restore target
    times,                  \* time_run's list
    err,                    \* the exception in flight, "" when none
    result,                 \* benchmark_commit's return value, 0 when none
    results,                \* start, end, main as far as assigned
    regress,
    out,                    \* the verdict lines printed
    exit_status,            \* -1 while running
    pick_in, pick_out,      \* pick_preferred_ref called on its own
    flaky,                  \* whether commands may fail for reasons outside the repository
    start_head,             \* history: HEAD when the program started
    hist                    \* history: counts of the commands run so far

repo == <<parents, refs, hasFile>>
args == <<argv, durs, flaky>>
resolved == <<first_unique, branch_origin_parent, found_refs, chosen_base_ref>>
bench == <<bi, restore_cmd, times, err, result, results>>
verdict == <<regress, out>>
pick == <<pick_in, pick_out>>
vars == <<parents, refs, hasFile, head, prev, argv, durs, pc, filepath, runs,
          first_unique, branch_origin_parent, found_refs, chosen_base_ref,
          bi, restore_cmd, times, err, result, results, regress, out, exit_status,
          pick_in, pick_out, flaky, start_head, hist>>

\* ------------------------------------------------------------ strings
Range(s) == {s[i] : i \in DOMAIN s}
Min(S) == CHOOSE m \in S : \A x \in S : m <= x
Empty == <<>>
HEAD == <<"HEAD">>
DASH == <<"-">>
ORIGIN_MAIN == <<"origin", "main">>
ORIGIN_MASTER == <<"origin", "master">>
MAIN == <<"main">>
DETACHED_LINE == <<"(HEAD detached at)">>

\* The segments of a string as str.split("/") gives them: [""] for "".
Segs(s) == IF s = Empty THEN <<"">> ELSE s

\* r.endswith("/" + cur)
EndsWithSlash(r, cur) ==
    LET t == Segs(cur)
    IN  Len(r) > Len(t) /\ SubSeq(r, Len(r) - Len(t) + 1, Len(r)) = t

\* r.startswith("origin/")
StartsWithOrigin(r) == Len(r) >= 2 /\ r[1] = "origin"

\* --------------------------------------------------- the repository
Commits == 1..MaxCommits
Hex == <<"c1", "c2", "c3", "c4", "c5", "c6">>
HashOf(c) == <<Hex[c]>>
IsHash(s) == Len(s) = 1 /\ \E c \in Commits : Hex[c] = s[1]
CommitOf(s) == CHOOSE c \in Commits : Hex[c] = s[1]

\* The names `git branch --all` sorts: local branches, then remote-tracking ones.
LocalNames == << <<"feat">>, <<"main">> >>
RemoteNames == << <<"origin", "dev">>, <<"origin", "feat">>, <<"origin", "main">> >>
RefNames == Range(LocalNames) \cup Range(RemoteNames)

RECURSIVE Ancestors(_)
Ancestors(c) == {c} \cup UNION {Ancestors(parents[c][i]) : i \in DOMAIN parents[c]}

RECURSIVE SortedSeq(_)
SortedSeq(S) == IF S = {} THEN <<>> ELSE <<Min(S)>> \o SortedSeq(S \ {Min(S)})

HeadCommit == IF head.branch # Empty THEN refs[head.branch] ELSE head.commit

\* git symbolic-ref --short -q HEAD, "" when HEAD is detached
SymbolicRef == head.branch

\* git rev-parse <name>: the commit, 0 when the command fails
RevParse(s) ==
    IF s = HEAD THEN HeadCommit
    ELSE IF IsHash(s) THEN CommitOf(s)
    ELSE IF s \in RefNames THEN refs[s]
    ELSE 0

\* git rev-parse <commit>^: the first parent, 0 when there is none locally
FirstParent(c) == IF parents[c] = <<>> THEN 0 ELSE parents[c][1]

\* git rev-list --reverse <tip>, and git rev-list --reverse <base>..<tip>
RevListReverse(tip) == SortedSeq(Ancestors(tip))
RevListRange(base, tip) == SortedSeq(Ancestors(tip) \ Ancestors(base))

\* git merge-base a b: the best common ancestors, of which git prints one
MergeBases(a, b) ==
    LET common == Ancestors(a) \cap Ancestors(b)
    IN  {c \in common : \A d \in common \ {c} : c \notin Ancestors(d)}

\* git branch --all --contains <commit>: the lines printed, in git's order
Line(star, arrow, text) == [star |-> star, arrow |-> arrow, text |-> text]
BranchLines(names, c, prefix) ==
    LET has == SelectSeq(names, LAMBDA n : refs[n] # 0 /\ c \in Ancestors(refs[n]))
    IN  [i \in 1..Len(has) |-> Line(head.branch = has[i], FALSE, prefix \o has[i])]
GitBranchAllContains(c) ==
    (IF head.branch = Empty /\ c \in Ancestors(head.commit)
        THEN <<Line(TRUE, FALSE, DETACHED_LINE)>> ELSE <<>>)
    \o BranchLines(LocalNames, c, <<>>)
    \o (IF refs[ORIGIN_MAIN] # 0 /\ c \in Ancestors(refs[ORIGIN_MAIN])
        THEN <<Line(FALSE, TRUE, <<"remotes", "origin", "HEAD">>)>> ELSE <<>>)
    \o BranchLines(RemoteNames, c, <<"remotes">>)

\* what HEAD was, as the reflog's "checkout: moving from X" names it
DescribeHead == IF head.branch # Empty THEN head.branch ELSE HashOf(head.commit)

Fail == [ok |-> FALSE, moves |-> FALSE, head |-> [branch |-> Empty, commit |-> 0]]
CheckoutNamed(s) ==
    IF s \in Range(LocalNames) /\ refs[s] # 0
        THEN [ok |-> TRUE, moves |-> TRUE, head |-> [branch |-> s, commit |-> 0]]
    ELSE IF RevParse(s) # 0
        THEN [ok |-> TRUE, moves |-> TRUE, head |-> [branch |-> Empty, commit |-> RevParse(s)]]
    ELSE Fail
\* git checkout --quiet <s>
CheckoutResult(s) ==
    IF s = HEAD THEN [ok |-> TRUE, moves |-> FALSE, head |-> head]
    ELSE IF s = DASH THEN (IF prev = Empty THEN Fail ELSE CheckoutNamed(prev))
    ELSE CheckoutNamed(s)
\* Whether the command can succeed, can fail: it fails when git cannot
\* resolve <s>, and may fail for other reasons in a flaky environment.
CheckoutOutcomes(s) ==
    IF ~CheckoutResult(s).ok THEN {FALSE} ELSE IF flaky THEN {TRUE, FALSE} ELSE {TRUE}
\* The effect on HEAD and on @{-1}.  Moving a detached HEAD to the commit it
\* is at already may or may not leave a reflog entry.
GitCheckout(s, ok) ==
    LET r == CheckoutResult(s)
    IN  IF ok /\ r.moves
        THEN /\ head' = r.head
             /\ prev' \in (IF head.branch = Empty /\ r.head = head
                              THEN {prev, DescribeHead} ELSE {DescribeHead})
        ELSE UNCHANGED <<head, prev>>

\* ------------------------------------------------------- the program
\* branches_containing: drop the "->" lines and the "remotes/" prefix ("* " is
\* the line's star, not part of its text).
NormalizeLine(l) ==
    IF Len(l.text) >= 2 /\ l.text[1] = "remotes" THEN Tail(l.text) ELSE l.text
branches_containing(commit) ==
    LET lines == GitBranchAllContains(commit)
        kept == SelectSeq(lines, LAMBDA l : ~l.arrow)
    IN  [i \in 1..Len(kept) |-> NormalizeLine(kept[i])]

\* A filter that drops the current branch only
OtherRefsMut(rs, current_branch) == SelectSeq(rs, LAMBDA r : r # current_branch)
OtherRefs(rs, current_branch) ==
    SelectSeq(rs, LAMBDA r : r # current_branch /\ ~EndsWithSlash(r, current_branch))

NotFound == [found |-> FALSE, commit |-> 0, parent |-> 0, refs |-> <<>>]
RECURSIVE ScanCommits(_, _, _)
ScanCommits(revs, i, current_branch) ==
    IF i > Len(revs) THEN NotFound
    ELSE LET commit == revs[i]
             parent == FirstParent(commit)
             other_refs == OtherRefs(branches_containing(parent), current_branch)
         IN  IF parent = 0 THEN ScanCommits(revs, i + 1, current_branch)
             ELSE IF other_refs # <<>>
                 THEN [found |-> TRUE, commit |-> commit, parent |-> parent,
                       refs |-> other_refs]
             ELSE ScanCommits(revs, i + 1, current_branch)
find_branch_origin_parent == ScanCommits(RevListReverse(HeadCommit), 1, SymbolicRef)

RECURSIVE Dedupe(_, _)
Dedupe(rs, seen) ==
    IF rs = <<>> THEN seen
    ELSE Dedupe(Tail(rs), IF Head(rs) \in Range(seen) THEN seen ELSE Append(seen, Head(rs)))
\* A choice that takes the first ref prefixed origin/ without looking for
\* origin/main or origin/master
pick_preferred_refMut(rs) ==
    IF rs = <<>> THEN Empty
    ELSE LET seen == Dedupe(rs, <<>>)
             origin == {i \in DOMAIN seen : StartsWithOrigin(seen[i])}
         IN  IF origin # {} THEN seen[Min(origin)] ELSE seen[1]
pick_preferred_ref(rs) ==
    IF rs = <<>> THEN Empty
    ELSE LET seen == Dedupe(rs, <<>>)
             origin == {i \in DOMAIN seen : StartsWithOrigin(seen[i])}
         IN  IF ORIGIN_MAIN \in Range(seen) THEN ORIGIN_MAIN
             ELSE IF ORIGIN_MASTER \in Range(seen) THEN ORIGIN_MASTER
             ELSE IF origin # {} THEN seen[Min(origin)]
             ELSE seen[1]

\* int(s) for the digit strings the model uses; anything else raises ValueError
NumStr == <<"1", "2", "3", "4", "5", "6">>
IsInt(s) == s = "0" \/ \E k \in DOMAIN NumStr : NumStr[k] = s
IntOf(s) == IF s = "0" THEN 0 ELSE CHOOSE k \in DOMAIN NumStr : NumStr[k] = s

\* main's argument loop; i counts from 1
RECURSIVE ParseArgs(_, _, _, _)
ParseArgs(a, i, fp, rn) ==
    IF i > Len(a) THEN [ok |-> TRUE, filepath |-> fp, runs |-> rn]
    ELSE IF a[i] = "--file" /\ i + 1 <= Len(a) THEN ParseArgs(a, i + 2, a[i + 1], rn)
    ELSE IF a[i] = "--runs" /\ i + 1 <= Len(a)
        THEN IF IsInt(a[i + 1]) THEN ParseArgs(a, i + 2, fp, IntOf(a[i + 1]))
             ELSE [ok |-> FALSE, filepath |-> fp, runs |-> rn]
    ELSE ParseArgs(a, i + 1, fp, rn)

\* statistics.median of a non-empty list
Insert(x, t) ==
    LET k == Cardinality({i \in DOMAIN t : t[i] <= x})
    IN  SubSeq(t, 1, k) \o <<x>> \o SubSeq(t, k + 1, Len(t))
RECURSIVE SortedList(_)
SortedList(s) == IF s = <<>> THEN <<>> ELSE Insert(Head(s), SortedList(Tail(s)))
Median(s) ==
    LET t == SortedList(s)
        n == Len(t)
    IN  IF n % 2 = 1 THEN t[(n + 1) \div 2]
        ELSE (t[n \div 2] + t[n \div 2 + 1]) \div 2

\* A comparison that fails at exactly 1.10 times the baseline
SlowerMut(end, base) == TolDen * end >= TolNum * base
\* end > base * 1.10
Slower(end, base) == TolDen * end > TolNum * base

\* The three references main benchmarks, in its order
CurrentBaseTip == IF chosen_base_ref = Empty THEN ORIGIN_MAIN ELSE chosen_base_ref
BenchTarget(i) ==
    IF i = 1 THEN HashOf(branch_origin_parent)
    ELSE IF i = 2 THEN HEAD
    ELSE CurrentBaseTip

\* ------------------------------------------------------ initial states
Times == {2 * t : t \in 9..MaxTick}
ParentChoices(c) ==
    {<<>>} \cup {<<p>> : p \in 1..(c - 1)}
           \cup {pq \in (1..(c - 1)) \X (1..(c - 1)) : pq[1] # pq[2]}
Graphs ==
    {g \in [Commits -> UNION {ParentChoices(c) : c \in Commits}] :
        \A c \in Commits : g[c] \in ParentChoices(c)}
RefMaps == {r \in [RefNames -> 0..MaxCommits] :
               Cardinality({n \in RefNames : r[n] # 0}) <= MaxRefs}
Live == UNION {Ancestors(refs[n]) : n \in {m \in RefNames : refs[m] # 0}}
            \cup Ancestors(HeadCommit)
\* Command lines: the default, a base branch name, a flag with no value, and
\* --runs with a number, with 0 and with a word.
Argvs == {<<>>, <<"dev">>, <<"--runs", "1">>, <<"--file">>}
ArgvsRuns ==
    {<<"--runs", "x">>, <<"--runs", "0">>} \cup {<<"--runs", NumStr[k]>> : k \in 1..MaxRuns}

\* A repository: every commit is reachable from a ref or from HEAD, or is a
\* parentless leftover numbered after those that are.  The reflog holds no
\* earlier checkout (a fresh clone).
InitRepo(graphs, refmaps) ==
    /\ parents \in graphs
    /\ refs \in refmaps
    /\ head \in {[branch |-> b, commit |-> 0] : b \in {n \in Range(LocalNames) : refs[n] # 0}}
                \cup {[branch |-> Empty, commit |-> c] : c \in Commits}
    /\ \E k \in Commits : Live = 1..k /\ \A c \in Commits : c > k => parents[c] = <<>>
InitProgram ==
    /\ filepath = "main.py"
    /\ runs = DefaultRuns
    /\ first_unique = 0
    /\ branch_origin_parent = 0
    /\ found_refs = <<>>
    /\ chosen_base_ref = Empty
    /\ bi = 0
    /\ restore_cmd = Empty
    /\ times = <<>>
    /\ err = ""
    /\ result = 0
    /\ results = <<>>
    /\ regress = FALSE
    /\ out = <<>>
    /\ exit_status = -1
    /\ start_head = head
    /\ hist = [checkouts |-> 0, timed |-> 0, acquired |-> 0, released |-> 0, medians |-> 0,
               raised |-> 0, unrestored |-> 0]

\* Every repository, a quiet environment, one duration.
Init ==
    /\ InitRepo(Graphs, RefMaps)
    /\ hasFile \in {Commits} \cup {Commits \ {c} : c \in Live}
    /\ prev = Empty
    /\ argv \in Argvs
    /\ durs = {2 * 10}
    /\ flaky = FALSE
    /\ pc = "parse"
    /\ pick_in = <<>>
    /\ pick_out = Empty
    /\ InitProgram

\* Linear histories with HEAD on the branch feat, and origin/main; every number
\* of runs, every duration, commands that may fail.
Chains == {g \in Graphs : \A c \in Commits : g[c] \in {<<>>, <<c - 1>>}}
FeatAndOriginMain ==
    {r \in RefMaps : \A n \in RefNames \ {<<"feat">>, ORIGIN_MAIN} : r[n] = 0}
InitJudge ==
    /\ InitRepo(Chains, FeatAndOriginMain)
    /\ head.branch # Empty
    /\ hasFile = Commits
    /\ prev = Empty
    /\ argv \in ArgvsRuns
    /\ durs = Times
    /\ flaky \in BOOLEAN
    /\ pc = "parse"
    /\ pick_in = <<>>
    /\ pick_out = Empty
    /\ InitProgram

\* pick_preferred_ref on every list of at most MaxPick of these refs
PickNames == {ORIGIN_MAIN, ORIGIN_MASTER, <<"origin", "dev">>, <<"origin", "feat">>,
              <<"feature", "x">>, MAIN}
PickInputs == UNION {[1..n -> PickNames] : n \in 0..MaxPick}
InitPick ==
    /\ parents = [c \in Commits |-> <<>>]
    /\ refs = [n \in RefNames |-> 0]
    /\ head = [branch |-> Empty, commit |-> 1]
    /\ hasFile = Commits
    /\ prev = Empty
    /\ argv = <<>>
    /\ durs = Times
    /\ flaky = FALSE
    /\ pc = "pick"
    /\ pick_in \in PickInputs
    /\ pick_out = Empty
    /\ InitProgram

\* ------------------------------------------------------------- actions
Bump(f) == [hist EXCEPT ![f] = @ + 1]

\* main, lines 153-166: the argument loop; int() raises on a non-number
Parse ==
    /\ pc = "parse"
    /\ LET p == ParseArgs(argv, 1, "main.py", DefaultRuns)
       IN  /\ filepath' = p.filepath
           /\ runs' = p.runs
           /\ pc' = IF p.ok THEN "fetch" ELSE "done"
           /\ err' = IF p.ok THEN "" ELSE "ValueError"
           /\ exit_status' = IF p.ok THEN -1 ELSE 1
    /\ UNCHANGED <<repo, head, prev, args, resolved, bi, restore_cmd, times, result,
                   results, verdict, pick, start_head, hist>>

\* ensure_fetched: best effort; a fetch that succeeds may move, create or
\* prune remote-tracking refs (the commits present stay the same)
EnsureFetched ==
    /\ pc = "fetch"
    /\ \E r \in RefMaps :
        /\ \A n \in Range(LocalNames) : r[n] = refs[n]
        /\ refs' = r
    /\ pc' = "resolve"
    /\ UNCHANGED <<parents, hasFile, head, prev, args, filepath, runs, resolved, bench,
                   verdict, exit_status, pick, start_head, hist>>

\* main, lines 171-181: the scan found a commit whose parent other refs contain
ResolveFound ==
    /\ pc = "resolve"
    /\ LET found == find_branch_origin_parent
           chosen == pick_preferred_ref(found.refs)
       IN  /\ found.found
           /\ first_unique' = found.commit
           /\ branch_origin_parent' = found.parent
           /\ found_refs' = found.refs
           /\ chosen_base_ref' = IF chosen = Empty THEN found.refs[1] ELSE chosen
    /\ bi' = 1
    /\ pc' = "detect"
    /\ UNCHANGED <<repo, head, prev, args, filepath, runs, restore_cmd, times, err, result,
                   results, verdict, exit_status, pick, start_head, hist>>

\* main, lines 182-193: merge-base with origin/main, or with main
BaseRef == IF RevParse(ORIGIN_MAIN) # 0 THEN ORIGIN_MAIN ELSE MAIN
FallbackBases == IF RevParse(BaseRef) = 0 THEN {} ELSE MergeBases(RevParse(BaseRef), HeadCommit)
ResolveFallback ==
    /\ pc = "resolve"
    /\ ~find_branch_origin_parent.found
    /\ \E merge_base \in FallbackBases :
        LET range == RevListRange(merge_base, HeadCommit)
            first == IF range = <<>> THEN merge_base ELSE range[1]
        IN  /\ first_unique' = first
            /\ branch_origin_parent' =
                   IF FirstParent(first) = 0 THEN merge_base ELSE FirstParent(first)
    /\ chosen_base_ref' = BaseRef
    /\ bi' = 1
    /\ pc' = "detect"
    /\ UNCHANGED <<repo, head, prev, args, filepath, runs, found_refs, restore_cmd, times,
                   err, result, results, verdict, exit_status, pick, start_head, hist>>

\* A failed resolution that goes on to benchmark HEAD
ResolveFailMut ==
    /\ pc = "resolve"
    /\ ~find_branch_origin_parent.found
    /\ FallbackBases = {}
    /\ first_unique' = HeadCommit
    /\ branch_origin_parent' = HeadCommit
    /\ bi' = 1
    /\ pc' = "detect"
    /\ UNCHANGED <<repo, head, prev, args, filepath, runs, found_refs, chosen_base_ref,
                   restore_cmd, times, err, result, results, verdict, exit_status, pick,
                   start_head, hist>>
\* main, lines 187-189: sys.exit(2)
ResolveFail ==
    /\ pc = "resolve"
    /\ ~find_branch_origin_parent.found
    /\ FallbackBases = {}
    /\ pc' = "done"
    /\ exit_status' = 2
    /\ UNCHANGED <<repo, head, prev, args, filepath, runs, resolved, bench, verdict, pick,
                   start_head, hist>>

\* benchmark_commit, line 115: detect_restore_cmd
DetectRestore ==
    /\ pc = "detect"
    /\ restore_cmd' = IF SymbolicRef # Empty THEN SymbolicRef ELSE HashOf(HeadCommit)
    /\ hist' = Bump("acquired")
    /\ pc' = "checkout"
    /\ UNCHANGED <<repo, head, prev, args, filepath, runs, resolved, bi, times, err, result,
                   results, verdict, exit_status, pick, start_head>>

\* benchmark_commit, line 117: safe_checkout raises when git checkout fails
SafeCheckout ==
    /\ pc = "checkout"
    /\ \E ok \in CheckoutOutcomes(BenchTarget(bi)) :
        /\ GitCheckout(BenchTarget(bi), ok)
        /\ err' = IF ok THEN "" ELSE "CalledProcessError"
        /\ pc' = IF ok THEN "run" ELSE "restore"
    /\ times' = <<>>
    /\ hist' = [hist EXCEPT !.checkouts = @ + 1,
                            !.raised = IF pc' = "restore" THEN @ + 1 ELSE @]
    /\ UNCHANGED <<repo, args, filepath, runs, resolved, bi, restore_cmd, result, results,
                   verdict, exit_status, pick, start_head>>

\* time_run, lines 32-36: one run of `python <file>` in the working tree; it
\* exits non-zero when the file is not there, and may for reasons of its own
RunOutcomes ==
    IF HeadCommit \notin hasFile THEN {0}
    ELSE IF flaky THEN durs \cup {0} ELSE durs
TimeRunStep ==
    /\ pc = "run"
    /\ Len(times) < runs
    /\ \E d \in RunOutcomes :
        /\ times' = IF d = 0 THEN times ELSE Append(times, d)
        /\ err' = IF d = 0 THEN "CalledProcessError" ELSE ""
        /\ pc' = IF d = 0 THEN "restore" ELSE "run"
    /\ hist' = [hist EXCEPT !.timed = @ + 1,
                            !.raised = IF pc' = "restore" THEN @ + 1 ELSE @]
    /\ UNCHANGED <<repo, head, prev, args, filepath, runs, resolved, bi, restore_cmd, result,
                   results, verdict, exit_status, pick, start_head>>

\* time_run, line 37, and benchmark_commit, lines 119-120: the median is the
\* return value; statistics.median raises on an empty list
TimeRunDone ==
    /\ pc = "run"
    /\ Len(times) >= runs
    /\ result' = IF times = <<>> THEN 0 ELSE Median(times)
    /\ err' = IF times = <<>> THEN "StatisticsError" ELSE ""
    /\ hist' = IF times = <<>> THEN Bump("raised") ELSE Bump("medians")
    /\ pc' = "restore"
    /\ UNCHANGED <<repo, head, prev, args, filepath, runs, resolved, bi, restore_cmd, times,
                   results, verdict, exit_status, pick, start_head>>

\* A benchmark_commit without the finally: the restore follows a successful
\* timing only, and an error leaves the call at once
RestoreMut ==
    /\ pc = "restore"
    /\ IF err # ""
       THEN /\ pc' = "finally"
            /\ UNCHANGED <<head, prev, hist, bi, results>>
       ELSE /\ \E ok \in CheckoutOutcomes(restore_cmd) :
                /\ GitCheckout(restore_cmd, ok)
                /\ hist' = [hist EXCEPT !.released = @ + 1,
                                        !.unrestored = IF ok THEN @ ELSE @ + 1]
            /\ results' = Append(results, result)
            /\ bi' = IF bi < 3 THEN bi + 1 ELSE bi
            /\ pc' = IF bi < 3 THEN "detect" ELSE "compare1"
    /\ UNCHANGED <<repo, args, filepath, runs, resolved, restore_cmd, times, err, result,
                   verdict, exit_status, pick, start_head>>
\* benchmark_commit, lines 121-126: the finally block; a failing restore is
\* swallowed.  Then the call returns to main (lines 205-207) or raises.
Restore ==
    /\ pc = "restore"
    /\ \E ok \in CheckoutOutcomes(restore_cmd) :
        /\ GitCheckout(restore_cmd, ok)
        /\ hist' = [hist EXCEPT !.released = @ + 1,
                                !.unrestored = IF ok THEN @ ELSE @ + 1]
    /\ IF err # ""
       THEN /\ pc' = "finally"
            /\ UNCHANGED <<bi, results>>
       ELSE /\ results' = Append(results, result)
            /\ bi' = IF bi < 3 THEN bi + 1 ELSE bi
            /\ pc' = IF bi < 3 THEN "detect" ELSE "compare1"
    /\ UNCHANGED <<repo, args, filepath, runs, resolved, restore_cmd, times, err, result,
                   verdict, exit_status, pick, start_head>>

\* main, lines 214-218: end against start
CompareOrigin ==
    /\ pc = "compare1"
    /\ regress' = (regress \/ Slower(results[2], results[1]))
    /\ out' = Append(out, IF Slower(results[2], results[1])
                              THEN "Regression vs branch origin (parent)"
                              ELSE "OK vs branch origin (parent)")
    /\ pc' = "compare2"
    /\ UNCHANGED <<repo, head, prev, args, filepath, runs, resolved, bench, exit_status,
                   pick, start_head, hist>>

\* main, lines 220-224: end against main
CompareBase ==
    /\ pc = "compare2"
    /\ regress' = (regress \/ Slower(results[2], results[3]))
    /\ out' = Append(out, IF Slower(results[2], results[3])
                              THEN "Regression vs current base tip"
                              ELSE "OK vs current base tip")
    /\ pc' = "finally"
    /\ UNCHANGED <<repo, head, prev, args, filepath, runs, resolved, bench, exit_status,
                   pick, start_head, hist>>

\* main, lines 226-228: git checkout --quiet -, check=False; an exception in
\* flight then leaves main: a traceback and exit status 1
FinalCheckout ==
    /\ pc = "finally"
    /\ \E ok \in CheckoutOutcomes(DASH) : GitCheckout(DASH, ok)
    /\ pc' = IF err # "" THEN "done" ELSE "exit"
    /\ exit_status' = IF err # "" THEN 1 ELSE exit_status
    /\ UNCHANGED <<repo, args, filepath, runs, resolved, bench, verdict, pick, start_head,
                   hist>>

\* main, lines 230-231
Exit ==
    /\ pc = "exit"
    /\ exit_status' = IF regress THEN 1 ELSE 0
    /\ pc' = "done"
    /\ UNCHANGED <<repo, head, prev, args, filepath, runs, resolved, bench, verdict, pick,
                   start_head, hist>>

Next ==
    \/ Parse
    \/ EnsureFetched
    \/ ResolveFound
    \/ ResolveFallback
    \/ ResolveFail
    \/ DetectRestore
    \/ SafeCheckout
    \/ TimeRunStep
    \/ TimeRunDone
    \/ Restore
    \/ CompareOrigin
    \/ CompareBase
    \/ FinalCheckout
    \/ Exit

Spec == Init /\ [][Next]_vars

SpecJudge == InitJudge /\ [][Next]_vars

\* pick_preferred_ref, lines 128-151, called on pick_in
PickRef ==
    /\ pc = "pick"
    /\ pick_out' = pick_preferred_ref(pick_in)
    /\ pc' = "picked"
    /\ UNCHANGED <<repo, head, prev, args, filepath, runs, resolved, bench, verdict,
                   exit_status, pick_in, start_head, hist>>
NextPick == PickRef
SpecPick == InitPick /\ [][NextPick]_vars

\* ============================================================== claims
\* HEAD has not moved yet and resolution is over (or never started benchmarking)
PastResolve == pc \notin {"parse", "fetch", "resolve"} /\ err # "ValueError"
                  /\ hist.checkouts = 0
JustResolved == pc = "detect" /\ bi = 1

\* The refs that are not the current branch (nor its remote-tracking twin)
OtherRefNames ==
    {n \in RefNames : refs[n] # 0 /\ n # head.branch /\ n # <<"origin">> \o head.branch}
InOtherRef(c) == \E n \in OtherRefNames : c \in Ancestors(refs[n])
OwnCommits == {c \in Ancestors(HeadCommit) : ~InOtherRef(c)}

\* C1: when the program ends after at least one checkout, HEAD is on the branch
\* (or, detached, at the commit) it was on when the program started.
C1_RoundTrip == (pc = "done" /\ hist.checkouts >= 1) => head = start_head

\* C2: when the branch has commits of its own and the oldest of them has a
\* parent P that another ref contains, the resolver's first unique commit is
\* that oldest own commit and the branch-origin-parent is P.
C2_OriginIsBranchPoint ==
    (/\ PastResolve
     /\ OwnCommits # {}
     /\ FirstParent(Min(OwnCommits)) # 0
     /\ InOtherRef(FirstParent(Min(OwnCommits))))
    => (/\ bi >= 1
        /\ first_unique = Min(OwnCommits)
        /\ branch_origin_parent = FirstParent(Min(OwnCommits)))

\* C3: when HEAD is reachable from the base tip (origin/main, else main), the
\* resolution does not fail and the origin benchmarked is the merge-base of
\* the base and HEAD.
C3_NoNewCommitsMergeBase ==
    (/\ PastResolve
     /\ RevParse(BaseRef) # 0
     /\ BaseRef # head.branch
     /\ HeadCommit \in Ancestors(RevParse(BaseRef)))
    => (/\ exit_status # 2
        /\ bi >= 1
        /\ branch_origin_parent \in MergeBases(RevParse(BaseRef), HeadCommit))

\* C4 as claimed: the base named on the command line (default main), resolved
\* as origin/<name> before <name>, is the base tip, and the origin is the
\* parent of the oldest commit reachable from HEAD but not from that base.
BaseArg == IF argv # <<>> /\ argv[1] \notin {"--file", "--runs"} THEN <<argv[1]>> ELSE MAIN
ExplicitBase ==
    IF RevParse(<<"origin">> \o BaseArg) # 0 THEN <<"origin">> \o BaseArg
    ELSE IF RevParse(BaseArg) # 0 THEN BaseArg
    ELSE Empty
NotInBase == Ancestors(HeadCommit) \ Ancestors(RevParse(ExplicitBase))
Listed(p) ==
    (IF head.branch = Empty /\ p \in Ancestors(head.commit) THEN {DETACHED_LINE} ELSE {})
    \cup {n \in OtherRefNames : p \in Ancestors(refs[n])}
ScanHits == {c \in Ancestors(HeadCommit) : FirstParent(c) # 0 /\ Listed(FirstParent(c)) # {}}
ListingOrder == <<DETACHED_LINE>> \o LocalNames \o RemoteNames
Preferred(S) ==
    LET any == {i \in DOMAIN ListingOrder : ListingOrder[i] \in S}
        org == {i \in any : ListingOrder[i][1] = "origin"}
    IN  IF ORIGIN_MAIN \in S THEN ORIGIN_MAIN
        ELSE IF org # {} THEN ListingOrder[Min(org)]
        ELSE ListingOrder[Min(any)]

SameRefs(q) == q # <<>> /\ Range(q) = Range(pick_in)
C5_PickOrderIndependent ==
    (pc = "picked" /\ pick_in # <<>>)
    => (/\ pick_out \in Range(pick_in)
        /\ ORIGIN_MAIN \in Range(pick_in) => pick_out = ORIGIN_MAIN
        /\ \A q \in PickInputs : SameRefs(q) => pick_preferred_ref(q) = pick_out)

\* C5 as amended: the ref chosen is origin/main when present, else
\* origin/master when present, else the first ref of the list prefixed
\* origin/, else the first ref of the list ("" for the empty list).
\* Duplicates never change it.  Reordering does not change it when origin/main
\* or origin/master is present, or exactly one distinct ref is prefixed
\* origin/, or none is and the list holds one distinct ref; so
\* {origin/dev, origin/main, feature/x} always yields origin/main and
\* {origin/dev, feature/x} always yields origin/dev.
OriginAt(q) == {i \in DOMAIN q : Len(q[i]) >= 2 /\ q[i][1] = "origin"}
OrderFree(S) ==
    \/ ORIGIN_MAIN \in S
    \/ ORIGIN_MASTER \in S
    \/ Cardinality({r \in S : r[1] = "origin"}) = 1
    \/ Cardinality(S) = 1
C5_PickFirstInListOrder ==
    pc = "picked" =>
        /\ pick_in = <<>> => pick_out = Empty
        /\ pick_in # <<>> =>
            /\ pick_out = (IF ORIGIN_MAIN \in Range(pick_in) THEN ORIGIN_MAIN
                           ELSE IF ORIGIN_MASTER \in Range(pick_in) THEN ORIGIN_MASTER
                           ELSE IF OriginAt(pick_in) # {} THEN pick_in[Min(OriginAt(pick_in))]
                           ELSE pick_in[1])
            /\ OrderFree(Range(pick_in)) =>
                   \A q \in PickInputs : SameRefs(q) => pick_preferred_ref(q) = pick_out
        /\ Range(pick_in) = {<<"origin", "dev">>, ORIGIN_MAIN, <<"feature", "x">>}
               => pick_out = ORIGIN_MAIN
        /\ Range(pick_in) = {<<"origin", "dev">>, <<"feature", "x">>}
               => pick_out = <<"origin", "dev">>
\* C5's case: the origin/ ref is not the first of the list and is chosen
C5_Witness ==
    /\ pc = "picked"
    /\ Len(pick_in) = 3
    /\ pick_in[1] = <<"feature", "x">>
    /\ pick_in[3] = <<"origin", "dev">>
    /\ pick_out = <<"origin", "dev">>

\* C6: with all three timings taken, the first verdict line says whether the
\* tip is more than 10% slower than the origin, the second whether it is more
\* than 10% slower than the base tip; both lines are printed whatever the
\* first says; the exit status is 1 when either says so and 0 when neither.
Passes(candidate, baseline) == 100 * candidate <= 110 * baseline
C6_Verdict ==
    Len(results) = 3 =>
        /\ pc \in {"compare1", "compare2", "finally", "exit", "done"}
        /\ pc # "compare1" =>
               out[1] = (IF Passes(results[2], results[1])
                            THEN "OK vs branch origin (parent)"
                            ELSE "Regression vs branch origin (parent)")
        /\ pc \in {"finally", "exit", "done"} =>
               /\ Len(out) = 2
               /\ out[2] = (IF Passes(results[2], results[3])
                               THEN "OK vs current base tip"
                               ELSE "Regression vs current base tip")
               /\ regress = ~(Passes(results[2], results[1]) /\ Passes(results[2], results[3]))
        /\ pc = "done" =>
               exit_status = (IF Passes(results[2], results[1]) /\ Passes(results[2], results[3])
                                 THEN 0 ELSE 1)
\* C6's case: the first comparison fails, the second is still made and passes
\* at exactly 1.10 times the baseline
C6_Witness ==
    /\ pc = "done"
    /\ Len(results) = 3
    /\ 100 * results[2] > 110 * results[1]
    /\ 100 * results[2] = 110 * results[3]
    /\ out = <<"Regression vs branch origin (parent)", "OK vs current base tip">>
    /\ exit_status = 1

\* C7: when neither the scan nor the merge-base fallback yields a divergence
\* point the program ends with exit status 2, and a run that ends with exit
\* status 2 has checked out nothing, timed nothing and left HEAD alone.
Yields == find_branch_origin_parent.found \/ FallbackBases # {}
C7_ResolutionFailureStops ==
    /\ (PastResolve /\ hist.acquired = 0 /\ ~Yields) => (pc = "done" /\ exit_status = 2)
    /\ exit_status = 2 =>
           /\ pc = "done"
           /\ bi = 0
           /\ hist.acquired = 0 /\ hist.checkouts = 0 /\ hist.timed = 0 /\ hist.released = 0
           /\ head = start_head /\ prev = Empty
           /\ ~Yields
\* C7's case: no other ref, no origin/main and no main to fall back to
C7_Witness ==
    /\ pc = "done"
    /\ exit_status = 2
    /\ head.branch = <<"feat">>
    /\ Cardinality(Ancestors(HeadCommit)) >= 2

\* C8: when the target file is missing at the resolved origin commit, the
\* program ends with exit status 3, no run was timed, and HEAD is where it was.
C8_MissingFileExit3 ==
    (pc = "done" /\ bi >= 1 /\ branch_origin_parent \notin hasFile)
    => (exit_status = 3 /\ hist.timed = 0 /\ head = start_head)

\* C9: a benchmark_commit call's restore is attempted on every exit path and
\* before the next reference is checked out, so at most one reference is
\* materialized; the restore raises nothing; after a failing checkout or timed
\* run no median is produced for that reference, no later reference is checked
\* out or timed, and the error leaves main after the restore.
C9_ScopedRelease ==
    /\ pc = "detect" => hist.acquired = bi - 1 /\ hist.released = bi - 1
    /\ pc \in {"checkout", "run", "restore"} => hist.acquired = bi /\ hist.released = bi - 1
    /\ (pc \in {"compare1", "compare2", "finally", "exit"} \/ (pc = "done" /\ bi >= 1))
           => hist.acquired = bi /\ hist.released = bi
    /\ hist.checkouts = (IF pc \in {"detect", "checkout"} THEN bi - 1 ELSE bi)
    /\ hist.raised = (IF err \in {"CalledProcessError", "StatisticsError"} THEN 1 ELSE 0)
    /\ hist.raised = 0 =>
           /\ Len(results) = hist.released
           /\ hist.medians = (IF pc = "restore" THEN bi ELSE hist.released)
           /\ hist.timed = hist.medians * runs + (IF pc = "run" THEN Len(times) ELSE 0)
    /\ hist.raised = 1 =>
           /\ pc \in {"restore", "finally", "done"}
           /\ Len(results) = bi - 1
           /\ hist.medians = bi - 1
           /\ hist.timed <= (bi - 1) * runs + Len(times) + 1
           /\ pc = "done" => exit_status = 1
\* C9's case: a timed run of the second reference fails, the restore is
\* attempted and fails too, and the program ends without the third reference
C9_Witness ==
    /\ pc = "done"
    /\ err = "CalledProcessError"
    /\ bi = 2
    /\ hist.timed > runs
    /\ hist.released = 2
    /\ hist.unrestored >= 1
    /\ exit_status = 1

\* C10: the refs the scan returns never hold an entry that denotes the current
\* HEAD, and the origin it returns is contained in a ref other than the
\* current checkout, on a branch and detached alike.
C10_OnlyOtherRefs ==
    (JustResolved /\ found_refs # <<>>)
    => (/\ \A i \in DOMAIN found_refs :
               found_refs[i] # DETACHED_LINE /\ found_refs[i] # head.branch
        /\ \E n \in RefNames :
               refs[n] # 0 /\ n # head.branch /\ branch_origin_parent \in Ancestors(refs[n]))

====
